---- MODULE Spec2Model ----
(***************************************************************************)
(* A model of busd's Bus (src/bus/mod.rs): bootstrap from an address       *)
(* (Bus::for_address), the accept loop (Bus::run / accept_next / accept /  *)
(* next_id), the detached admission tasks it spawns, and Bus::cleanup.     *)
(*                                                                         *)
(* The process owns at most one Bus value at a time; the filesystem, the   *)
(* admission tasks and the peer registries outlive a Bus value.            *)
(***************************************************************************)
EXTENDS Integers, Sequences, FiniteSets, TLC

VARIABLES
    fs,           \* the socket files that exist on the filesystem
    bus,          \* Option<Bus>: <<>> or <<the Bus value the owner holds>>
    boots,        \* one record per Bus::for_address call, in call order
    runState,     \* the Bus::run future: idle | running | failed | cancelled
    runRet,       \* Option: what the last Bus::run returned to its caller
    queue,        \* connections waiting in the listener's backlog (FIFO)
    arrived,      \* number of connections clients have made so far
    accepted,     \* the sockets Bus::accept returned, in order, with their bus
    tasks,        \* the admission tasks spawned, in spawn order
    registry,     \* the peers registered in the Peers registries
    lastAccept,   \* Option: what the listener's last accept returned to this run
    log,          \* the log lines emitted (level, message)
    cleanupRet    \* Option: what the last Bus::cleanup returned

vars == <<fs, bus, boots, runState, runRet, queue, arrived,
          accepted, tasks, lastAccept, registry, log,
          cleanupRet>>

\* ------------------------------------------------------------------ bounds

\* Bus::for_address calls explored together with the accept loop.
MaxBoots == 1
\* Bus::for_address calls explored in the bootstrap/shutdown lifecycle alone.
MaxResolves == 2
\* Client connections explored (over all buses).
MaxConn == 2
\* Distinct values of the random draw explored from the low end of its range.
NumDraws == 2

\* ------------------------------------------------------- program constants

\* fastrand::u32(1_000_000..u32::MAX): the lowest value drawn.
RandLow == 1000000

\* ------------------------------------------------------------------ values

None == <<>>
Some(x) == <<x>>

\* A filesystem path or a name, split as parent directory / file name stem /
\* numeric suffix, so that dir.join("dbus-<n>") is a value of the same shape.
MkPath(dir, base, num) == [dir |-> dir, base |-> base, num |-> num]

\* zbus::Address: transport, the Unix socket kind, the transport's parameters
\* and the optional guid.
UnixAddress(kind, path, guid) ==
    [transport |-> "unix", kind |-> kind, path |-> path,
     nonce_file |-> FALSE, guid |-> guid]
TcpAddress(host, port, nonce, guid) ==
    [transport |-> "tcp", kind |-> "inet", path |-> MkPath(host, "", port),
     nonce_file |-> nonce, guid |-> guid]
OtherAddress(transport) ==
    [transport |-> transport, kind |-> "none", path |-> MkPath("", "", 0),
     nonce_file |-> FALSE, guid |-> None]

\* The directories that exist; a bind below any other directory fails.
ExistingDirs == {"/tmp/d", "/run/user/1000"}

\* The draws of fastrand::u32(1_000_000..u32::MAX) that are explored: the
\* low end of the range.
RandDraws == RandLow .. (RandLow + NumDraws - 1)

\* Guid::generate(): a fresh guid at each call, named by the call's number.
GenGuidNames == <<"gen1", "gen2", "gen3", "gen4">>
generate(n) == GenGuidNames[n]

\* The address strings given to Bus::for_address, as what they parse to.
AddressInputs == {
    UnixAddress("file", MkPath("/tmp/d", "dbus-", RandLow), None),
    UnixAddress("dir", MkPath("/tmp/d", "", 0), None),
    UnixAddress("dir", MkPath("/nodir", "", 0), None),
    UnixAddress("tmpdir", MkPath("/tmp/d", "", 0), Some("cafe")),
    UnixAddress("abstract", MkPath("", "busd-abs", 0), None),
    TcpAddress("127.0.0.1", 4242, FALSE, None),
    TcpAddress("127.0.0.1", 4242, FALSE, Some("cafe")),
    TcpAddress("127.0.0.1", 4242, TRUE, None),
    OtherAddress("launchd")
}

\* XDG_RUNTIME_DIR: unset, or a directory.
EnvValues == {None, Some("/tmp/d")}

\* The errors tokio's accept may return.
AcceptErrors == {"EMFILE", "ECONNABORTED"}

Last(s) == s[Len(s)]
Range(s) == {s[i] : i \in DOMAIN s}

\* ------------------------------------------------------- address resolution

\* default_address(): unix:dir=$XDG_RUNTIME_DIR, or /run/user/<uid>.
default_address(env) ==
    UnixAddress("dir",
                MkPath(IF env # None THEN env[1] ELSE "/run/user/1000", "", 0),
                None)

\* The build modelled: cfg(target_os = "linux"), where the Abstract arm of
\* Bus::unix_addr is compiled in.
target_os_linux == TRUE

\* Address::from_str: the transports and socket kinds the build of zbus knows.
from_str(a, linux) ==
    \/ a.transport = "tcp"
    \/ a.transport = "unix" /\ (a.kind = "abstract" => linux)
    \/ a.transport = "launchd" /\ ~linux

\* The guid `match` of for_address: an explicit guid is adopted, otherwise the
\* generated one is used.
\* (Faulty variant: the explicit guid is ignored.)
choose_guid_ignores_explicit(a, generated) == generated
choose_guid(a, generated) ==
    IF a.guid # None THEN a.guid[1] ELSE generated

\* std SocketAddr values.
PathnameAddr(path) == [kind |-> "pathname", path |-> path]
AbstractAddr(name) == [kind |-> "abstract", path |-> name]
InetAddr(host, port) == [kind |-> "inet", path |-> MkPath(host, "", port)]

\* SocketAddr::as_pathname.
as_pathname(addr) == IF addr.kind = "pathname" THEN Some(addr.path) ELSE None

\* dir.join(format!("dbus-{}", n)).
\* (Faulty variant: the directory itself is used.)
join_dbus_keeps_dir(dir, n) == dir
join_dbus(dir, n) == MkPath(dir.dir, "dbus-", n)

\* Bus::unix_addr: Ok(SocketAddr) or Err.
unix_addr(unix, rnd, linux) ==
    CASE unix.kind = "abstract" /\ linux ->
            [ok |-> TRUE, addr |-> AbstractAddr(unix.path),
             info |-> "Listening on abstract UNIX socket"]
      [] unix.kind = "file" ->
            [ok |-> TRUE, addr |-> PathnameAddr(unix.path),
             info |-> "Listening on UNIX socket file"]
      [] unix.kind \in {"dir", "tmpdir"} ->
            [ok |-> TRUE, addr |-> PathnameAddr(join_dbus(unix.path, rnd)),
             info |-> "Listening on UNIX socket file"]
      [] OTHER ->
            [ok |-> FALSE, addr |-> AbstractAddr(unix.path), info |-> ""]

\* UnixListener::bind_addr: a pathname bind creates the socket file and fails
\* when the file exists or its directory does not.
\* (Faulty variant: an existing file does not stop the bind.)
bind_ok_over_existing(addr, files) == TRUE
bind_ok(addr, files) ==
    addr.kind = "pathname" =>
        /\ addr.path.dir \in ExistingDirs
        /\ addr.path \notin files

\* The address for_address advertises for a unix transport.
\* (Faulty variant: the address given is kept, with the guid.)
rewrite_address_keeps_hint(a, path, guid) == [a EXCEPT !.guid = Some(guid)]
rewrite_address(a, path, guid) == UnixAddress("file", path, Some(guid))

\* Bus::unix_stream / Bus::tcp_stream after the nonce check: the Listener.
Listener(variant, addr) == [variant |-> variant, endpoint |-> addr]

LogLine(level, msg) == [level |-> level, msg |-> msg]

\* The mechanism paired with the listener in the transport match: External
\* for the Unix arm, Anonymous for the Tcp arm.
\* (Faulty variant: External whatever the transport.)
auth_mechanism_always_external(variant) == "External"
auth_mechanism_for(variant) ==
    IF variant = "Unix" THEN "External" ELSE "Anonymous"

\* ------------------------------------------------------------ for_address

\* The outcome of one Bus::for_address call: the result (ok, err or panic),
\* the steps executed in order, the socket address resolved (if any), whether
\* a listener was bound, the files after the call, the Bus value returned.
Outcome(result, steps, addr, bound, files, b, lines) ==
    [result |-> result, steps |-> steps, addr |-> addr, bound |-> bound,
     files |-> files, bus |-> b, lines |-> lines]

\* Lines 78-113: registry, service objects, self-dial pair, both connections,
\* add_us, the Bus value. connFail names the connection whose build fails.
\* (Faulty variant: the Bus is returned without the add_us call.)
finish_bootstrap_skips_add_us(listener, auth, address, guid, reg, connFail, steps, addr, files, lines) ==
    Outcome(IF connFail = "none" THEN "ok" ELSE "err",
            steps \o <<"peers_new", "dbus_new", "monitoring_new", "pair",
                       "service_conn", "peer_conn", "return">>,
            addr, TRUE, files,
            IF connFail = "none"
            THEN Some([listener |-> listener, address |-> address,
                       peers |-> reg, guid |-> guid, next_id |-> 0,
                       auth_mechanism |-> auth, self_conn |-> reg])
            ELSE None,
            lines)
finish_bootstrap(listener, auth, address, guid, reg, connFail, steps, addr, files, lines) ==
    LET s1 == steps \o <<"peers_new", "dbus_new", "monitoring_new", "pair">>
        l1 == lines \cup {LogLine("trace", "Creating self-dial connection.")}
    IN  IF connFail = "service"
        THEN Outcome("err", s1 \o <<"service_conn_failed">>, addr, TRUE, files,
                     None, l1)
        ELSE IF connFail = "peer"
        THEN Outcome("err", s1 \o <<"service_conn", "peer_conn_failed">>, addr,
                     TRUE, files, None, l1)
        ELSE Outcome("ok",
                     s1 \o <<"service_conn", "peer_conn", "add_us", "return">>,
                     addr, TRUE, files,
                     Some([listener |-> listener,
                           address |-> address,
                           peers |-> reg,
                           guid |-> guid,
                           next_id |-> 0,
                           auth_mechanism |-> auth,
                           self_conn |-> reg]),
                     l1 \cup {LogLine("trace", "Self-dial connection created.")})

\* Lines 59-73: the Unix arm of the transport match.
unix_arm(a, guid, rnd, linux, reg, connFail, files, steps) ==
    LET r == unix_addr(a, rnd, linux)
        s1 == steps \o <<"unix_addr">>
    IN  IF ~r.ok THEN Outcome("err", s1, None, FALSE, files, None, {})
        ELSE LET lines == {LogLine("info", r.info)}
                 pn == as_pathname(r.addr)
             IN  IF pn = None
                 THEN Outcome("panic", s1 \o <<"expect_pathname">>,
                              Some(r.addr), FALSE, files, None, lines)
                 ELSE LET address == rewrite_address(a, pn[1], guid)
                          s2 == s1 \o <<"rewrite", "bind">>
                      IN  IF ~bind_ok(r.addr, files)
                          THEN Outcome("err", s2, Some(r.addr), FALSE, files,
                                       None, lines)
                          ELSE finish_bootstrap(
                                   Listener("Unix", r.addr),
                                   auth_mechanism_for("Unix"),
                                   address, guid, reg, connFail, s2,
                                   Some(r.addr), files \cup {r.addr.path},
                                   lines)

\* Line 74 and Bus::tcp_stream.
\* (Faulty variant: the nonce file is not checked.)
tcp_arm_ignores_nonce(a, guid, reg, connFail, files, steps) ==
    finish_bootstrap(Listener("Tcp", InetAddr(a.path.dir, a.path.num)),
                     auth_mechanism_for("Tcp"), a, guid, reg, connFail,
                     steps \o <<"bind">>,
                     Some(InetAddr(a.path.dir, a.path.num)), files,
                     {LogLine("info", "Listening on host:port")})
tcp_arm(a, guid, reg, connFail, files, steps) ==
    IF a.nonce_file
    THEN Outcome("err", steps \o <<"nonce_check">>, None, FALSE, files, None,
                 {})
    ELSE LET addr == InetAddr(a.path.dir, a.path.num)
         IN  finish_bootstrap(Listener("Tcp", addr),
                              auth_mechanism_for("Tcp"), a, guid, reg,
                              connFail, steps \o <<"nonce_check", "bind">>,
                              Some(addr), files,
                              {LogLine("info", "Listening on host:port")})

\* Bus::for_address. input is Option<&str> (parsed lazily by from_str), env the
\* value of XDG_RUNTIME_DIR, generated what Guid::generate() would return, rnd
\* what fastrand would draw, connFail the self-connection build that fails,
\* reg the handle of the registry Peers::new() would create.
for_address(input, env, generated, rnd, connFail, linux, reg, files) ==
    LET src == IF input # None THEN input[1] ELSE default_address(env)
    IN  IF ~from_str(src, linux)
        THEN Outcome("err", <<"parse">>, None, FALSE, files, None, {})
        ELSE LET guid == choose_guid(src, generated)
                 a == [src EXCEPT !.guid = Some(guid)]
                 steps == <<"parse", "guid">>
             IN  CASE a.transport = "unix" ->
                        unix_arm(a, guid, rnd, linux, reg, connFail, files,
                                 steps)
                   [] a.transport = "tcp" ->
                        tcp_arm(a, guid, reg, connFail, files, steps)
                   [] OTHER ->
                        Outcome("err", steps \o <<"unsupported">>, None, FALSE,
                                files, None, {})

\* Peers::add_us: the loopback peer of registry reg.
UsPeer(reg) == [reg |-> reg, kind |-> "us", id |-> 0]
\* Peers::add, on success: peer id of registry reg.
Peer(reg, id) == [reg |-> reg, kind |-> "peer", id |-> id]

ForAddress(input, env, rnd, connFail) ==
    /\ bus = None
    /\ LET reg == Len(boots) + 1
           generated == generate(reg)
           o == for_address(input, env, generated, rnd, connFail,
                            target_os_linux,
                            reg, fs)
       IN  /\ boots' = Append(boots,
                              [src |-> IF input # None THEN input[1]
                                       ELSE default_address(env),
                               result |-> o.result, steps |-> o.steps,
                               addr |-> o.addr, bound |-> o.bound])
           /\ fs' = o.files
           /\ bus' = o.bus
           /\ log' = log \cup o.lines
           /\ registry' = IF "add_us" \in Range(o.steps)
                          THEN registry \cup {UsPeer(reg)}
                          ELSE registry
    /\ runState' = "idle"
    /\ runRet' = None
    /\ lastAccept' = None
    /\ cleanupRet' = None
    /\ UNCHANGED <<queue, arrived, accepted, tasks>>

\* ------------------------------------------------------------- accept loop

\* A client connects to the Bus's listening socket: the connection waits in
\* the listener's backlog. Connections are named by their order of arrival.
Connect ==
    /\ bus # None
    /\ arrived < MaxConn
    /\ arrived' = arrived + 1
    /\ queue' = Append(queue, arrived + 1)
    /\ UNCHANGED <<fs, bus, boots, runState, runRet, accepted,
                   tasks, lastAccept, registry, log, cleanupRet>>

\* The owner calls Bus::run (again, after it returned or was cancelled).
Run ==
    /\ bus # None
    /\ runState # "running"
    /\ runState' = "running"
    /\ runRet' = None
    /\ lastAccept' = None
    /\ UNCHANGED <<fs, bus, boots, queue, arrived, accepted,
                   tasks, registry, log, cleanupRet>>

\* Bus::next_id: the counter after the increment, which is the id returned.
\* (Faulty variant: no increment.)
next_id_returns_old(n) == n
\* (Faulty variant: the counter is incremented twice.)
next_id_skips_one(n) == n + 2
next_id(n) == n + 1

\* The loop of Bus::run around accept_next: accept_next returns right after
\* spawn, so the loop polls the listener again whatever the admissions do.
\* (Faulty variant: the admission is awaited in the loop.)
loop_awaits_admissions(ts) == \A i \in DOMAIN ts : ts[i].status # "pending"
loop_polls_accept(ts) == TRUE

\* The admission task accept_next spawns: inner is the clone of Bus::inner
\* taken after next_id, so it carries the guid, the mechanism and the registry.
spawn_admission(inner, id, socket) ==
    [bus |-> inner.peers, id |-> id, socket |-> socket, guid |-> inner.guid,
     auth_mechanism |-> inner.auth_mechanism, status |-> "pending"]

\* Bus::accept_next when the listener yields a connection.
AcceptNext ==
    /\ bus # None
    /\ runState = "running"
    /\ loop_polls_accept(tasks)
    /\ queue # <<>>
    /\ LET socket == Head(queue)
           id == next_id(bus[1].next_id)
           inner == [bus[1] EXCEPT !.next_id = next_id(bus[1].next_id)]
       IN  /\ queue' = Tail(queue)
           /\ lastAccept' = Some([ok |-> TRUE, socket |-> socket, error |-> ""])
           /\ accepted' = Append(accepted,
                                 [bus |-> bus[1].peers, socket |-> socket])
           /\ bus' = Some(inner)
           /\ tasks' = Append(tasks, spawn_admission(inner, id, socket))
           /\ log' = log \cup {LogLine("debug", "Accepted connection on address")}
    /\ UNCHANGED <<fs, boots, runState, runRet, arrived, registry,
                   cleanupRet>>

\* `self.accept_next().await?` in Bus::run when accept_next returns Err(e):
\* the state of the run future and what run returns.
\* (Faulty variant: the error is swallowed and the loop goes on.)
run_swallows_error(e) == [state |-> "running", ret |-> None]
run_on_error(e) ==
    [state |-> "failed", ret |-> Some([result |-> "err", error |-> e])]

\* Bus::accept_next when the listener's accept returns an error: the `?` of
\* accept and of accept_next return it before next_id and spawn.
AcceptError(e) ==
    /\ bus # None
    /\ runState = "running"
    /\ loop_polls_accept(tasks)
    /\ lastAccept' = Some([ok |-> FALSE, socket |-> 0, error |-> e])
    /\ runState' = run_on_error(e).state
    /\ runRet' = run_on_error(e).ret
    /\ UNCHANGED <<fs, bus, boots, queue, arrived, accepted,
                   tasks, registry, log, cleanupRet>>

\* The owner drops the future of Bus::run while it waits in accept.
\* (Faulty variant: the future can also be dropped between the accept and
\* the spawn, with the connection already taken.)
Cancel_between_accept_and_spawn ==
    /\ runState = "running"
    /\ runState' = "cancelled"
    /\ IF bus # None /\ queue # <<>>
       THEN /\ queue' = Tail(queue)
            /\ accepted' = Append(accepted, [bus |-> bus[1].peers,
                                             socket |-> Head(queue)])
       ELSE UNCHANGED <<queue, accepted>>
    /\ UNCHANGED <<fs, bus, boots, runRet, arrived, tasks, lastAccept,
                   registry, log, cleanupRet>>
\* (Faulty variant: the admissions are aborted with the loop.)
Cancel_aborts_admissions ==
    /\ runState = "running"
    /\ runState' = "cancelled"
    /\ tasks' = [i \in DOMAIN tasks |->
                    IF tasks[i].status = "pending"
                    THEN [tasks[i] EXCEPT !.status = "failed"]
                    ELSE tasks[i]]
    /\ UNCHANGED <<fs, bus, boots, runRet, queue, arrived, accepted,
                   lastAccept, registry, log, cleanupRet>>
Cancel ==
    /\ runState = "running"
    /\ runState' = "cancelled"
    /\ UNCHANGED <<fs, bus, boots, runRet, queue, arrived,
                   accepted, tasks, lastAccept, registry, log, cleanupRet>>

\* ------------------------------------------------------------- admissions

\* Peers::add returns Ok for task i: the peer is registered.
AdmitOk(i) ==
    /\ i \in DOMAIN tasks
    /\ tasks[i].status = "pending"
    /\ tasks' = [tasks EXCEPT ![i].status = "registered"]
    /\ registry' = registry \cup {Peer(tasks[i].bus, tasks[i].id)}
    /\ UNCHANGED <<fs, bus, boots, runState, runRet, queue,
                   arrived, accepted, lastAccept, log, cleanupRet>>

\* The `if let Err(e)` of the spawned task: what a failed admission does to
\* the run future (nothing: the error is logged inside the task).
\* (Faulty variant: the error ends the loop.)
admission_error_fails_run(state) == "failed"
on_admission_error(state) == state

\* Peers::add returns Err for task i: the task logs a warning and ends,
\* dropping the socket.
AdmitFail(i) ==
    /\ i \in DOMAIN tasks
    /\ tasks[i].status = "pending"
    /\ tasks' = [tasks EXCEPT ![i].status = "failed"]
    /\ log' = log \cup {LogLine("warn", "Failed to establish connection")}
    /\ runState' = on_admission_error(runState)
    /\ UNCHANGED <<fs, bus, boots, runRet, queue, arrived,
                   accepted, lastAccept, registry, cleanupRet>>

\* ---------------------------------------------------------------- cleanup

\* The match of Bus::cleanup: the file to remove, if any.
\* (Faulty variant: nothing is ever removed.)
cleanup_never_removes(address) == None
cleanup_target(address) ==
    IF address.transport = "unix" /\ address.kind = "file"
    THEN Some(address.path)
    ELSE None

\* tokio::fs::remove_file(path).await.map_err(Into::into): the result cleanup
\* returns and the number of removal attempts, for a file that exists or not.
\* (Faulty variant: a missing file is reported as success.)
remove_ignores_missing(exists) == [result |-> "ok", removeCalls |-> 1]
remove_file(exists) ==
    [result |-> IF exists THEN "ok" ELSE "err", removeCalls |-> 1]

\* Bus::cleanup(self): consumes the Bus (closing its listener; the results of
\* its loop go with it).
Cleanup ==
    /\ bus # None
    /\ runState # "running"
    /\ LET target == cleanup_target(bus[1].address)
           r == IF target = None
                THEN [result |-> "ok", removeCalls |-> 0]
                ELSE remove_file(target[1] \in fs)
       IN  /\ fs' = IF target = None THEN fs ELSE fs \ {target[1]}
           /\ cleanupRet' = Some([result |-> r.result,
                                  removeCalls |-> r.removeCalls,
                                  target |-> target])
    /\ bus' = None
    /\ queue' = <<>>
    /\ runState' = "idle"
    /\ runRet' = None
    /\ lastAccept' = None
    /\ UNCHANGED <<boots, arrived, accepted, tasks, registry,
                   log>>

\* The owner drops the Bus value without calling cleanup: the listener is
\* closed and the results of its loop go with it; nothing else happens (Bus
\* has no Drop implementation).
\* (Faulty variant: the drop unlinks the socket file.)
DropBus_unlinks_socket ==
    /\ bus # None
    /\ runState # "running"
    /\ fs' = fs \ {bus[1].listener.endpoint.path}
    /\ bus' = None
    /\ queue' = <<>>
    /\ runState' = "idle"
    /\ runRet' = None
    /\ lastAccept' = None
    /\ UNCHANGED <<boots, arrived, accepted, tasks, registry, log,
                   cleanupRet>>
DropBus ==
    /\ bus # None
    /\ runState # "running"
    /\ bus' = None
    /\ queue' = <<>>
    /\ runState' = "idle"
    /\ runRet' = None
    /\ lastAccept' = None
    /\ UNCHANGED <<fs, boots, arrived, accepted, tasks, registry,
                   log, cleanupRet>>

\* Something outside the process removes a socket file.
ExternalRemove(p) ==
    /\ p \in fs
    /\ fs' = fs \ {p}
    /\ UNCHANGED <<bus, boots, runState, runRet, queue, arrived,
                   accepted, tasks, lastAccept, registry, log, cleanupRet>>

\* ------------------------------------------------------------------- spec

Init ==
    /\ fs = {}
    /\ bus = None
    /\ boots = <<>>
    /\ runState = "idle"
    /\ runRet = None
    /\ queue = <<>>
    /\ arrived = 0
    /\ accepted = <<>>
    /\ tasks = <<>>
    /\ lastAccept = None
    /\ registry = {}
    /\ log = {}
    /\ cleanupRet = None

\* The environment variable is read only by default_address and the random
\* number is drawn only for a directory hint, so each is enumerated only
\* where the call reads it.
EnvRead(input) == IF input = None THEN EnvValues ELSE {None}
DrawsRead(input) ==
    IF input = None \/ input[1].kind \in {"dir", "tmpdir"}
    THEN RandDraws ELSE {RandLow}

BootAny ==
    \E input \in {None} \cup {Some(a) : a \in AddressInputs} :
        \E env \in EnvRead(input), rnd \in DrawsRead(input),
           connFail \in {"none", "service", "peer"} :
            ForAddress(input, env, rnd, connFail)

Boot == Len(boots) < MaxBoots /\ BootAny
Resolve == Len(boots) < MaxResolves /\ BootAny

AcceptFails == \E e \in AcceptErrors : AcceptError(e)
AdmissionSucceeds == \E i \in DOMAIN tasks : AdmitOk(i)
AdmissionFails == \E i \in DOMAIN tasks : AdmitFail(i)
FileRemoved == \E p \in fs : ExternalRemove(p)

Next ==
    \/ Boot
    \/ Connect
    \/ Run
    \/ AcceptNext
    \/ AcceptFails
    \/ Cancel
    \/ AdmissionSucceeds
    \/ AdmissionFails
    \/ Cleanup
    \/ DropBus
    \/ FileRemoved

Spec == Init /\ [][Next]_vars

\* Bootstrap and shutdown alone: Bus values are created, and dropped or
\* cleaned up, one after the other on the same filesystem.
LifecycleNext ==
    \/ Resolve
    \/ Cleanup
    \/ DropBus
    \/ FileRemoved

LifecycleSpec == Init /\ [][LifecycleNext]_vars

\* A Bus up to its shutdown: bootstrap, the accept loop and the admissions.
\* (Cleanup, a drop of the Bus and the removal of a file happen only while no
\* run is going or do not touch the loop's state.)
LoopNext ==
    \/ Boot
    \/ Connect
    \/ Run
    \/ AcceptNext
    \/ AcceptFails
    \/ Cancel
    \/ AdmissionSucceeds
    \/ AdmissionFails

\* The accept loop is a task the runtime keeps polling: once a connection
\* waits and the loop runs, accept_next is eventually executed. Nothing is
\* assumed of the admissions, of the clients or of the listener's errors.
LiveSpec == Init /\ [][LoopNext]_vars /\ WF_vars(AcceptNext)

\* ----------------------------------------------------------------- claims

\* The admission tasks spawned for, and the sockets accepted by, the Bus whose
\* registry is b, in order.
TasksOf(b) == LET OfBus(t) == t.bus = b IN SelectSeq(tasks, OfBus)
AcceptedOf(b) == LET OfBus(t) == t.bus = b IN SelectSeq(accepted, OfBus)

\* C1: whatever the admissions do, the PeerIds handed to admission by one
\* Bus are 1, 2, ..., N: the k-th connection its listener yielded is given id
\* k, and the counter stands at N.
C1_PeerIdsInAcceptanceOrder ==
    /\ \A b \in 1 .. Len(boots) :
        LET ts == TasksOf(b)
            acc == AcceptedOf(b)
        IN  /\ Len(ts) = Len(acc)
            /\ \A k \in DOMAIN ts :
                /\ ts[k].id = k
                /\ ts[k].socket = acc[k].socket
    /\ bus # None => bus[1].next_id = Len(TasksOf(bus[1].peers))

\* C1 witness: two connections were accepted and the second admission ended
\* while the first is still pending.
C1_Witness ==
    /\ Len(tasks) >= 2
    /\ tasks[1].status = "pending"
    /\ tasks[2].status # "pending"
    /\ tasks[2].id = 2

\* C2: a failed admission is logged and leaves the run future, what run
\* returned, the Bus and the backlog as they were; run only ever returns an
\* error of the listener's accept; and a running loop with a connection
\* waiting can always take it, failed admissions or not.
C2_AdmissionFailureIsIsolated ==
    /\ [][(\E i \in DOMAIN tasks :
              /\ tasks[i].status = "pending"
              /\ i \in DOMAIN tasks'
              /\ tasks'[i].status = "failed")
          => /\ runState' = runState
             /\ runRet' = runRet
             /\ bus' = bus
             /\ queue' = queue
             /\ LogLine("warn", "Failed to establish connection") \in log']_vars
    /\ [](runRet # None =>
            /\ lastAccept # None
            /\ ~lastAccept[1].ok
            /\ runRet[1].error = lastAccept[1].error)
    /\ []((/\ \E i \in DOMAIN tasks : tasks[i].status = "failed"
           /\ runState = "running"
           /\ queue # <<>>) => ENABLED AcceptNext)

\* C2 witness: the first admission failed, the loop is still running, and a
\* connection accepted after the failure was given id 2 and registered.
C2_Witness ==
    /\ Len(tasks) >= 2
    /\ tasks[1].status = "failed"
    /\ tasks[2].status = "registered"
    /\ tasks[2].id = 2
    /\ runState = "running"
    /\ runRet = None

\* C3: while the loop runs, a connection waiting in the backlog is eventually
\* accepted and handed to an admission task (unless the run ends by an accept
\* error or a cancellation), whatever the pending admissions do; and the
\* loop can take a waiting connection in every state in which it runs.
C3_LoopNeverWaitsForAdmission ==
    /\ \A c \in 1 .. MaxConn :
        ((\E i \in DOMAIN queue : queue[i] = c) /\ runState = "running")
            ~> (\/ \E i \in DOMAIN tasks : tasks[i].socket = c
                \/ runState # "running")
    /\ []((runState = "running" /\ queue # <<>>) => ENABLED AcceptNext)

\* C3 witness: two admissions are in flight at once while the loop runs.
C3_Witness ==
    /\ Len(tasks) >= 2
    /\ tasks[1].status = "pending"
    /\ tasks[2].status = "pending"
    /\ runState = "running"

\* C4: an error of the listener's accept ends the run with that error, mints
\* no PeerId and spawns nothing; a run ends only so or by cancellation;
\* nothing is accepted while no run is going; run never returns success.
C4_RunEndsOnlyOnAcceptError ==
    /\ [][(lastAccept' # lastAccept /\ lastAccept' # None /\ ~lastAccept'[1].ok)
          => /\ runState = "running"
             /\ runState' = "failed"
             /\ runRet' = Some([result |-> "err",
                                error |-> lastAccept'[1].error])
             /\ bus' = bus
             /\ tasks' = tasks
             /\ accepted' = accepted]_vars
    /\ [][(runState = "running" /\ runState' # "running")
          => \/ runState' = "cancelled" /\ runRet' = None
             \/ /\ runState' = "failed"
                /\ lastAccept' # None
                /\ ~lastAccept'[1].ok]_vars
    /\ [][runState # "running"
          => /\ accepted' = accepted
             /\ Len(tasks') = Len(tasks)
             /\ (bus # None /\ bus' # None
                   => bus'[1].next_id = bus[1].next_id)]_vars
    /\ [](runRet # None => runRet[1].result = "err" /\ runState = "failed")

\* C4 witness: run has returned the listener's error after one connection
\* was accepted, and a connection still waits in the backlog, not accepted.
C4_Witness ==
    /\ runState = "failed"
    /\ runRet = Some([result |-> "err", error |-> "EMFILE"])
    /\ Len(tasks) = 1
    /\ queue # <<>>

\* A step that is a Bus::cleanup call.
CleanupStep == bus # None /\ bus' = None /\ cleanupRet' # None

\* The listener of b is a domain socket bound to a file path.
BoundToFile(b) ==
    b.listener.variant = "Unix" /\ b.listener.endpoint.kind = "pathname"

\* C5: cleanup makes one attempt to remove the file its listener was bound
\* to, and touches no other file, when the listener is a domain socket bound
\* to a file path; otherwise it returns Ok and leaves the filesystem alone.
C5_CleanupRemovesBoundFile ==
    [][CleanupStep =>
        IF BoundToFile(bus[1])
        THEN /\ cleanupRet'[1].target = Some(bus[1].listener.endpoint.path)
             /\ cleanupRet'[1].removeCalls = 1
             /\ fs' = fs \ {bus[1].listener.endpoint.path}
        ELSE /\ cleanupRet'[1].target = None
             /\ cleanupRet'[1].removeCalls = 0
             /\ cleanupRet'[1].result = "ok"
             /\ fs' = fs]_vars

\* C5 witness: a cleanup has removed the socket file of a Bus that was
\* bootstrapped from a directory hint.
C5_Witness ==
    /\ cleanupRet # None
    /\ cleanupRet[1].result = "ok"
    /\ cleanupRet[1].target # None
    /\ cleanupRet[1].target[1] \notin fs
    /\ Last(boots).src.kind = "dir"

\* C6: a cleanup of a file-path Bus whose socket file is gone returns an
\* error after exactly one removal attempt.
C6_CleanupOfMissingFileFails ==
    [][(CleanupStep /\ BoundToFile(bus[1])
          /\ bus[1].listener.endpoint.path \notin fs)
        => /\ cleanupRet'[1].result = "err"
           /\ cleanupRet'[1].removeCalls = 1
           /\ fs' = fs]_vars

\* C6 witness: a cleanup has returned an error.
C6_Witness ==
    /\ cleanupRet # None
    /\ cleanupRet[1].result = "err"
    /\ cleanupRet[1].target # None

\* C7: the address of a Bus carries the Bus's guid, which is the explicit
\* guid of the address given, or else the one generated by this call; and
\* every admission the Bus spawned got that guid.
C7_AddressCarriesGuid ==
    bus # None =>
        LET b == bus[1]
            src == Last(boots).src
        IN  /\ b.address.guid = Some(b.guid)
            /\ src.guid # None => b.guid = src.guid[1]
            /\ src.guid = None => b.guid = generate(Len(boots))
            /\ \A i \in DOMAIN tasks :
                tasks[i].bus = b.peers => tasks[i].guid = b.guid

\* C7 witness: a Bus on a domain socket, bootstrapped from an address with
\* an explicit guid, has handed a connection to admission.
C7_Witness ==
    /\ bus # None
    /\ bus[1].address.transport = "unix"
    /\ Last(boots).src.guid = Some("cafe")
    /\ bus[1].guid = "cafe"
    /\ \E i \in DOMAIN tasks : tasks[i].bus = bus[1].peers

\* C8: a Bus bootstrapped from a dir= or tmpdir= hint advertises the path
\* form naming dbus-<number> inside that directory, and its listener is bound
\* to exactly that path.
C8_DirHintResolvedToBoundPath ==
    (bus # None /\ Last(boots).src.kind \in {"dir", "tmpdir"}) =>
        LET b == bus[1]
            src == Last(boots).src
        IN  /\ b.address.transport = "unix"
            /\ b.address.kind = "file"
            /\ b.address.path.dir = src.path.dir
            /\ b.address.path.base = "dbus-"
            /\ b.address.path.num >= RandLow
            /\ b.listener = Listener("Unix", PathnameAddr(b.address.path))

\* C8 witness: a Bus bootstrapped from a tmpdir= hint is live.
C8_Witness ==
    /\ bus # None
    /\ Last(boots).src.kind = "tmpdir"
    /\ bus[1].address.kind = "file"

\* Resolutions i and j are of the same directory hint, in an existing
\* directory.
SameValidHint(i, j) ==
    /\ boots[i].src.kind \in {"dir", "tmpdir"}
    /\ boots[i].src = boots[j].src
    /\ boots[i].src.path.dir \in ExistingDirs

\* C9 as stated: two resolutions of one valid directory hint yield distinct
\* paths and both binds succeed.
C9_AsStated ==
    \A i, j \in DOMAIN boots :
        (i < j /\ SameValidHint(i, j)) =>
            /\ boots[i].addr # boots[j].addr
            /\ boots[i].bound
            /\ boots[j].bound

\* C9 as amended: every resolution of a directory hint yields the path
\* dbus-<n> inside the directory, n being the number drawn (at least
\* 1_000_000); the bind succeeds exactly when the directory exists and no
\* file exists at that path, and then creates the file. (Two resolutions
\* that draw the same number yield the same path.)
C9_ResolvedPathBindsIfFree ==
    [][(Len(boots') > Len(boots)
          /\ Last(boots').src.kind \in {"dir", "tmpdir"})
        => LET r == Last(boots')
           IN  /\ r.addr # None
               /\ r.addr[1].kind = "pathname"
               /\ r.addr[1].path.dir = r.src.path.dir
               /\ r.addr[1].path.base = "dbus-"
               /\ r.addr[1].path.num \in RandDraws
               /\ r.bound <=> (/\ r.addr[1].path.dir \in ExistingDirs
                               /\ r.addr[1].path \notin fs)
               /\ r.bound => r.addr[1].path \in fs']_vars

\* C9 witness: the same valid directory hint was resolved twice to the same
\* path, and the second bind failed on the file the first had created.
C9_Witness ==
    /\ Len(boots) >= 2
    /\ SameValidHint(1, 2)
    /\ boots[1].addr = boots[2].addr
    /\ boots[1].bound
    /\ ~boots[2].bound

\* C10 as stated: for_address on an abstract-namespace address uses the
\* name as the endpoint and binds the listener to it, without crashing (it
\* returns a Bus unless a later bootstrap step fails).
C10_AsStated ==
    \A i \in DOMAIN boots :
        boots[i].src.kind = "abstract" =>
            /\ boots[i].result # "panic"
            /\ boots[i].addr = Some(AbstractAddr(boots[i].src.path))
            /\ boots[i].bound

\* A step that is a Bus::for_address call.
BootStep == Len(boots') = Len(boots) + 1

\* C11: the mechanism of a Bus is External when its listener is a domain
\* socket and Anonymous when it is TCP; while the Bus lives neither its
\* listener nor its mechanism changes; every admission it spawned was given
\* its mechanism.
C11_MechanismFollowsTransport ==
    /\ [](bus # None =>
            /\ bus[1].listener.variant \in {"Unix", "Tcp"}
            /\ bus[1].listener.variant = "Unix"
                 <=> bus[1].auth_mechanism = "External"
            /\ bus[1].listener.variant = "Tcp"
                 <=> bus[1].auth_mechanism = "Anonymous"
            /\ bus[1].listener.variant = "Unix"
                 <=> Last(boots).src.transport = "unix"
            /\ \A i \in DOMAIN tasks :
                tasks[i].bus = bus[1].peers
                    => tasks[i].auth_mechanism = bus[1].auth_mechanism)
    /\ [][(bus # None /\ bus' # None)
          => /\ bus'[1].listener = bus[1].listener
             /\ bus'[1].auth_mechanism = bus[1].auth_mechanism]_vars

\* C11 witness: a Bus on TCP has handed a connection to admission with the
\* Anonymous mechanism.
C11_Witness ==
    /\ bus # None
    /\ bus[1].listener.variant = "Tcp"
    /\ \E i \in DOMAIN tasks :
        /\ tasks[i].bus = bus[1].peers
        /\ tasks[i].auth_mechanism = "Anonymous"

\* The address is rejected as unsupported: TCP with a nonce file, or a
\* transport that is neither unix nor tcp.
Unsupported(a) ==
    \/ a.transport = "tcp" /\ a.nonce_file
    \/ a.transport \notin {"unix", "tcp"}

\* C12: for_address on a TCP address with a nonce file, or on a transport
\* that is neither unix nor tcp, returns an error and no Bus, having bound no
\* listener, created no file and built no registry or self-connection.
C12_UnsupportedRejectedBeforeBind ==
    /\ [](\A i \in DOMAIN boots :
            Unsupported(boots[i].src) =>
                /\ boots[i].result = "err"
                /\ ~boots[i].bound
                /\ boots[i].addr = None
                /\ Range(boots[i].steps) \cap
                     {"bind", "peers_new", "pair", "service_conn",
                      "peer_conn", "add_us"} = {})
    /\ [][(BootStep /\ Unsupported(Last(boots').src))
          => /\ bus' = None
             /\ fs' = fs
             /\ registry' = registry]_vars

\* C12 witness: a for_address call on a TCP address with a nonce file has
\* returned an error.
C12_Witness ==
    /\ boots # <<>>
    /\ Last(boots).src.transport = "tcp"
    /\ Last(boots).src.nonce_file
    /\ Last(boots).result = "err"

\* The call recorded in r bound a listener to a file path.
BoundPath(r) ==
    r.bound /\ r.addr # None /\ r.addr[1].kind = "pathname"

\* C13: the process adds a file only in a for_address call, and then the one
\* its listener was bound to, also when the call fails after the bind; the
\* process removes a file only in a cleanup call. A run that ends (by an
\* accept error or a cancellation), a run that goes on and a dropped Bus
\* leave the filesystem as it is.
C13_FileCreatedByBindRemovedByCleanup ==
    [][/\ (fs' \ fs # {}) =>
            /\ BootStep
            /\ BoundPath(Last(boots'))
            /\ fs' = fs \cup {Last(boots').addr[1].path}
       /\ (BootStep /\ BoundPath(Last(boots')))
            => Last(boots').addr[1].path \in fs'
       /\ (fs \ fs' # {}) =>
            \/ CleanupStep
            \/ UNCHANGED <<bus, boots, runState, runRet, queue, arrived,
                           accepted, tasks, lastAccept, registry, log,
                           cleanupRet>>
       /\ (bus # None /\ ~BootStep /\ ~CleanupStep
             /\ <<bus, runState, tasks>> # <<bus', runState', tasks'>>)
            => fs' = fs]_vars

\* C13 witness: a Bus on a domain socket accepted a connection and was then
\* dropped without cleanup, and its socket file is still there.
C13_Witness ==
    /\ bus = None
    /\ boots # <<>>
    /\ Last(boots).result = "ok"
    /\ BoundPath(Last(boots))
    /\ cleanupRet = None
    /\ tasks # <<>>
    /\ Last(boots).addr[1].path \in fs

\* The position of step x in the steps of call r (0 when it was not taken).
StepAt(r, x) ==
    IF \E k \in DOMAIN r.steps : r.steps[k] = x
    THEN CHOOSE k \in DOMAIN r.steps : r.steps[k] = x
    ELSE 0

\* C14: in every for_address call that returns a Bus the registry is created
\* before the in-memory pair, the pair before the service end, the service
\* end before the peer end, the peer end before add_us, and add_us before
\* the return; so the loopback peer of a registry is registered whenever a
\* Bus with that registry exists, and before any connection is accepted, given
\* a PeerId or handed to admission with it.
C14_BootstrapSequenced ==
    /\ \A i \in DOMAIN boots :
        boots[i].result = "ok" =>
            /\ 0 < StepAt(boots[i], "peers_new")
            /\ StepAt(boots[i], "bind") < StepAt(boots[i], "peers_new")
            /\ StepAt(boots[i], "peers_new") < StepAt(boots[i], "pair")
            /\ StepAt(boots[i], "pair") < StepAt(boots[i], "service_conn")
            /\ StepAt(boots[i], "service_conn") < StepAt(boots[i], "peer_conn")
            /\ StepAt(boots[i], "peer_conn") < StepAt(boots[i], "add_us")
            /\ StepAt(boots[i], "add_us") < StepAt(boots[i], "return")
    /\ bus # None => UsPeer(bus[1].peers) \in registry
    /\ \A i \in DOMAIN accepted : UsPeer(accepted[i].bus) \in registry
    /\ \A i \in DOMAIN tasks : UsPeer(tasks[i].bus) \in registry
    /\ \A p \in registry : UsPeer(p.reg) \in registry

\* C14 witness: a Bus whose loopback peer is registered has had a connection
\* registered as peer 1.
C14_Witness ==
    /\ bus # None
    /\ UsPeer(bus[1].peers) \in registry
    /\ Peer(bus[1].peers, 1) \in registry

\* C15: while a Bus lives, a step changes at most its PeerId counter; the
\* counter changes exactly in the steps that take a connection from the
\* listener, and then by +1; the guid, the address, the mechanism, the
\* registry handle, the listener and the self-connection stay as bootstrap
\* left them, whatever the admissions do.
C15_OnlyCounterChanges ==
    [][(bus # None /\ bus' # None)
        => /\ [bus'[1] EXCEPT !.next_id = 0] = [bus[1] EXCEPT !.next_id = 0]
           /\ bus'[1].next_id - bus[1].next_id
                = Len(accepted') - Len(accepted)
           /\ bus'[1].next_id \in {bus[1].next_id, bus[1].next_id + 1}
           /\ (\E i \in DOMAIN tasks : tasks'[i] # tasks[i])
                => bus' = bus]_vars

\* C15 witness: after two accepts, an admission success and an admission
\* failure, the Bus's counter is 2.
C15_Witness ==
    /\ bus # None
    /\ bus[1].next_id = 2
    /\ Len(tasks) = 2
    /\ \E i \in DOMAIN tasks : tasks[i].status = "registered"
    /\ \E i \in DOMAIN tasks : tasks[i].status = "failed"

\* The number of times step x was taken in call r.
StepCount(r, x) == Cardinality({k \in DOMAIN r.steps : r.steps[k] = x})

\* Call r of for_address reached the bind of a socket path that the
\* filesystem files cannot take: a file is already there, or the directory
\* is not.
BindRefused(r, files) ==
    /\ "bind" \in Range(r.steps)
    /\ r.addr # None
    /\ r.addr[1].kind = "pathname"
    /\ (r.addr[1].path \in files \/ r.addr[1].path.dir \notin ExistingDirs)

\* C16: a for_address call whose bind the filesystem refuses (a file already
\* at the socket path, for instance the one an earlier Bus left behind)
\* returns an error and no Bus, tries the bind once, creates no registry, no
\* in-memory pair and no self-connection, and leaves the filesystem, the
\* existing file included, as it was.
C16_BindFailureIsFatal ==
    [][(BootStep /\ BindRefused(Last(boots'), fs))
        => /\ Last(boots').result = "err"
           /\ ~Last(boots').bound
           /\ bus' = None
           /\ StepCount(Last(boots'), "bind") = 1
           /\ Last(Last(boots').steps) = "bind"
           /\ {"peers_new", "pair", "service_conn", "peer_conn", "add_us",
               "return"} \cap Range(Last(boots').steps) = {}
           /\ registry' = registry
           /\ fs' = fs]_vars

\* C16 witness: the second call resolved to the socket path the first one
\* bound, the file of the first is still there, and the second call failed.
C16_Witness ==
    /\ Len(boots) = 2
    /\ boots[1].result = "ok"
    /\ BoundPath(boots[1])
    /\ boots[2].addr = boots[1].addr
    /\ boots[2].result = "err"
    /\ ~boots[2].bound
    /\ boots[1].addr[1].path \in fs
    /\ bus = None

\* The sockets of a sequence of accept or task records, in order.
SocketsOf(recs) == [i \in DOMAIN recs |-> recs[i].socket]

\* C17: in every reachable state, those after a cancellation of the run
\* included, the connections taken from a Bus's listener are exactly the
\* connections handed to admission tasks, in the same order, and the PeerId
\* counter of the living Bus is their number; a connection that was not
\* taken is still in the backlog.
C17_AcceptToHandoffAtomic ==
    /\ \A b \in 1 .. Len(boots) :
        SocketsOf(AcceptedOf(b)) = SocketsOf(TasksOf(b))
    /\ Len(accepted) = Len(tasks)
    /\ bus # None =>
        /\ bus[1].next_id = Len(AcceptedOf(bus[1].peers))
        /\ bus[1].next_id = Len(TasksOf(bus[1].peers))
        /\ \A i \in DOMAIN queue : \A j \in DOMAIN accepted :
                queue[i] # accepted[j].socket

\* C17 witness: the run was cancelled after it took one connection, while
\* another was waiting in the backlog.
C17_Witness ==
    /\ bus # None
    /\ runState = "cancelled"
    /\ bus[1].next_id = 1
    /\ Len(tasks) = 1
    /\ queue # <<>>

\* C18: the end of the run, by an accept error or by cancellation, and the
\* end of the Bus, change no admission task; a pending admission can always
\* go on to registration or to failure; when it does, it registers the peer
\* under the registry and id it was spawned with, or logs the failure; and
\* the registry, id, guid and mechanism of a task never change.
C18_AdmissionsDetached ==
    /\ [][((runState = "running" /\ runState' # "running")
            \/ (bus # None /\ bus' = None))
          => (tasks' = tasks /\ registry' = registry)]_vars
    /\ [](\A i \in DOMAIN tasks :
            tasks[i].status = "pending"
                => (ENABLED AdmitOk(i) /\ ENABLED AdmitFail(i)))
    /\ [][\A i \in DOMAIN tasks :
            /\ i \in DOMAIN tasks'
            /\ [tasks'[i] EXCEPT !.status = "pending"]
                 = [tasks[i] EXCEPT !.status = "pending"]
            /\ tasks'[i].status # tasks[i].status
                => /\ tasks[i].status = "pending"
                   /\ tasks'[i].status = "registered"
                        => Peer(tasks[i].bus, tasks[i].id) \in registry'
                   /\ tasks'[i].status = "failed"
                        => LogLine("warn", "Failed to establish connection")
                               \in log']_vars

\* C18 witness: the run has returned an accept error while an admission it
\* spawned is still pending.
C18_Witness ==
    /\ runState = "failed"
    /\ runRet # None
    /\ \E i \in DOMAIN tasks : tasks[i].status = "pending"

\* C19, as stated: whenever Bus::run has returned an accept error, a line of
\* error severity has been logged.
C19_AsStated ==
    runRet # None => \E l \in log : l.level = "error"
====
